---- MODULE Spec2Model ----
(***************************************************************************)
(* A model of structure_mp.py: the multi-processing STRUCTURE wrapper for  *)
(* RAD-seq data.  Strings whose contents matter (contig names, locus keys, *)
(* individual names, genotype calls) are sequences of one-character        *)
(* strings; Python's None is the value None.                               *)
(***************************************************************************)
EXTENDS Integers, Sequences, FiniteSets, TLC

VARIABLES
    \* main's inputs and early locals
    replicate_IDs,      \* list of replicate identifiers (generate_identifiers)
    threads,            \* the batch size given on the command line
    vcf,                \* the records of the variant file, in file order
    indvs_pops,         \* dict individual -> population (dict_from_popfile)
    vcf_filename,       \* the name of the variant file on the command line
    \* generate_batches' locals
    batches, temp_batch, count, total_count, gb_pc,
    \* select_random_snps' locals
    selected_snps, temp_SNPs, previous_CHROM, rec_idx, sample_pc,
    \* what generate_structure_file did for each replicate it was applied to
    encoded,
    \* generate_clumpp_input for one K
    structure_files,    \* the lines of each replicate's result file for K
    clumpp_file,        \* the lines written to the aggregate file so far
    harvest_idx,        \* the replicate the loop is at (1-based)
    harvest_pc,
    \* get_structure_genotype applied to one call
    gt_bases,           \* the call it is given
    structure_genotype, \* what it returned or raised
    \* main and parallelise
    maxK,               \* the largest K given on the command line
    main_pc,            \* the statement main is at
    K,                  \* the K of the loop main is in
    batch_no,           \* the batch parallelise is at (1-based)
    pool_size,          \* worker processes of the open Pool, 0 for none
    taskq,              \* tasks of pool.map not yet taken by a worker
    running,            \* worker -> the operation it executes, or None
    results,            \* replicate -> outcome of its task in this pool.map
    \* the history of the run
    invocations,        \* operation -> the number of times it was begun
    ended,              \* the operations that returned or raised
    raised,             \* the operations that raised in their worker
    first_nonzero,      \* the first external process that exited non-zero
    out_missing,        \* the K for which some result file was not written
    aligner_out_missing,\* whether CLUMPP left no output for the current K
    hung,               \* the workers whose external process never finishes
    \* calc_clust_stats
    perm_tables, stats_x, mean_thresholds, median_thresholds, stats_pc,
    stats_result

\* the state of get_structure_genotype applied to one call on its own
genoVars   == <<gt_bases, structure_genotype>>
\* what no step of the pipeline changes: the inputs of the run and the state
\* of the functions that are applied on their own
\* the state of generate_clumpp_input applied on its own
harvestVars == <<structure_files, clumpp_file, harvest_idx, harvest_pc>>
inVars     == <<replicate_IDs, threads, vcf, indvs_pops, vcf_filename, genoVars,
               harvestVars>>
batchVars  == <<batches, temp_batch, count, total_count, gb_pc>>
sampleVars == <<selected_snps, temp_SNPs, previous_CHROM, rec_idx, sample_pc>>
encodeVars == <<encoded>>
runVars    == <<maxK, main_pc, K, batch_no, pool_size, taskq, running, results,
               invocations, ended, raised, first_nonzero, out_missing,
               aligner_out_missing, hung>>
statsVars  == <<perm_tables, stats_x, mean_thresholds, median_thresholds,
               stats_pc, stats_result>>
vars       == <<inVars, batchVars, sampleVars, encodeVars, runVars, statsVars>>

\* None, a value that is no string of characters
None == <<"None">>

-----------------------------------------------------------------------------
(* Bounds of the model *)

MaxReps        == 5    \* replicates given to generate_batches
MaxThreads     == 3    \* batch sizes given to generate_batches
MaxTimestamp   == 1    \* int(time.time()) ranges over 0..MaxTimestamp
MaxContigs     == 3    \* contigs in a variant stream
MaxLoci        == 2    \* records per contig
MaxSampleReps  == 2    \* replicates given to select_random_snps
MaxIndivs      == 3    \* individuals in a population file
MaxRunReps     == 3    \* replicates of a run of main
MaxRunThreads  == 2    \* threads of a run of main
MaxK           == 3    \* maxK of a run of main
MaxAlleleLen   == 2    \* characters of an allele of a genotype call
MaxFileLines   == 4    \* lines of a result file
MaxPermReps    == 2    \* permutation tables given to calc_clust_stats

-----------------------------------------------------------------------------
(* Text helpers *)

Digits == <<"0", "1", "2", "3", "4", "5", "6", "7", "8", "9">>

\* str(n) / '{}'.format(n) for a natural number n
RECURSIVE DecStr(_)
DecStr(n) == IF n < 10 THEN <<Digits[n + 1]>>
             ELSE DecStr(n \div 10) \o <<Digits[(n % 10) + 1]>>

RECURSIVE Concat(_)
Concat(ss) == IF ss = <<>> THEN <<>> ELSE Head(ss) \o Concat(Tail(ss))

Range(s) == {s[i] : i \in DOMAIN s}

-----------------------------------------------------------------------------
(* generate_identifiers: the identifier '<folder>/<file>_<id_number>.str' is *)
(* represented by its id_number, the only part that differs between the     *)
(* replicates of a run.                                                      *)

generate_identifiers(timestamp, replicates) ==
    [x \in 1..replicates |-> timestamp + (x - 1)]

-----------------------------------------------------------------------------
(* The names of the files of a run *)

\* text.replace(old, new) of Python for a non-empty old: every occurrence,
\* from the left, not overlapping
RECURSIVE replace(_, _, _)
replace(text, old, new) ==
    IF Len(text) < Len(old) THEN text
    ELSE IF SubSeq(text, 1, Len(old)) = old
         THEN new \o replace(SubSeq(text, Len(old) + 1, Len(text)), old, new)
         ELSE <<Head(text)>> \o replace(Tail(text), old, new)

\* output_folder = vcf_filename.replace('.vcf', '_%s' % timestamp)
init_output_folder(name, timestamp) ==
    replace(name, <<".", "v", "c", "f">>, <<"_">> \o DecStr(timestamp))

\* '{0}/{1}_{2}.str'.format(output_folder, filename, id_number), filename
\* being vcf_filename.replace('.vcf', ''): the identifier of the replicate
\* with that id_number, and the name of its encoded file
identifier(output_folder, name, id_number) ==
    output_folder \o <<"/">> \o replace(name, <<".", "v", "c", "f">>, <<>>)
        \o <<"_">> \o DecStr(id_number) \o <<".", "s", "t", "r">>

\* the result file named without K (mutant of output_filename)
output_filename_without_K(replicate, num_K) ==
    replace(replicate, <<".", "s", "t", "r">>, <<".", "o", "u", "t">>)

\* output_filename = replicate.replace('.str', '_{0}.out'.format(num_K))
output_filename(replicate, num_K) ==
    replace(replicate, <<".", "s", "t", "r">>,
            <<"_">> \o DecStr(num_K) \o <<".", "o", "u", "t">>)

\* stdout_filename = replicate.replace('.str', '_{0}.log'.format(num_K))
stdout_filename(replicate, num_K) ==
    replace(replicate, <<".", "s", "t", "r">>,
            <<"_">> \o DecStr(num_K) \o <<".", "l", "o", "g">>)

\* the variant file names of the model; the second holds '.str'
VcfFilenames ==
    {<<"a", ".", "v", "c", "f">>,
     <<"a", ".", "s", "t", "r", ".", "v", "c", "f">>}

-----------------------------------------------------------------------------
(* generate_batches *)

\* the locals before the loop
gb_start == [batches |-> <<>>, temp_batch |-> <<>>, count |-> 0, total_count |-> 0]

\* a loop body that only flushes full batches (mutant of gb_body)
gb_body_no_tail(s, replicate, T, n) ==
    LET count1 == s.count + 1
        total1 == s.total_count + 1
        temp1  == Append(s.temp_batch, replicate)
    IN  IF count1 = T
        THEN [batches |-> Append(s.batches, temp1), temp_batch |-> <<>>,
              count |-> 0, total_count |-> total1]
        ELSE [batches |-> s.batches, temp_batch |-> temp1,
              count |-> count1, total_count |-> total1]

\* one iteration of the for loop, on the locals s, for a list of n identifiers
gb_body(s, replicate, T, n) ==
    LET count1 == s.count + 1
        total1 == s.total_count + 1
        temp1  == Append(s.temp_batch, replicate)
    IN  IF count1 = T \/ total1 = n
        THEN [batches |-> Append(s.batches, temp1), temp_batch |-> <<>>,
              count |-> 0, total_count |-> total1]
        ELSE [batches |-> s.batches, temp_batch |-> temp1,
              count |-> count1, total_count |-> total1]

RECURSIVE gb_loop(_, _, _, _)
gb_loop(s, ids, T, i) ==
    IF i > Len(ids) THEN s
    ELSE gb_loop(gb_body(s, ids[i], T, Len(ids)), ids, T, i + 1)

generate_batches(ids, T) == gb_loop(gb_start, ids, T, 1).batches

-----------------------------------------------------------------------------
(* The variant stream.  A record has the fields PyVCF exposes: CHROM, POS   *)
(* and, per individual, the genotype call gt_bases.                         *)

ContigName(c) == <<"c">> \o DecStr(c)

\* '{0}_{1}'.format(record.CHROM, record.POS)
snp_key(CHROM, POS) == CHROM \o <<"_">> \o DecStr(POS)

\* The streams sorted by CHROM: contig c = 1..Len(sizes) holds sizes[c]
\* records at positions 1..sizes[c].
RECURSIVE StreamOf(_, _, _)
StreamOf(sizes, c, calls) ==
    IF c > Len(sizes) THEN <<>>
    ELSE [p \in 1..sizes[c] |->
             [CHROM |-> ContigName(c), POS |-> p, calls |-> calls]]
         \o StreamOf(sizes, c + 1, calls)

StreamShapes ==
    UNION {[1..n -> 1..MaxLoci] : n \in 0..MaxContigs}

-----------------------------------------------------------------------------
(* select_random_snps *)

\* the condition under which a record opens a new CHROM
new_CHROM(previous, CHROM) == previous \notin {<<>>, CHROM}

\* the values random.randint(0, len(temp_SNPs) - 1) can return
randint_range_inclusive_len(buffer) == 0..Len(buffer)

randint_range(buffer) == 0..(Len(buffer) - 1)

\* only the first replicate receives a draw (mutant of draw_replicates)
draw_first_replicate(replicates_IDs) == {replicates_IDs[1]}

\* "for replicate in replicates_IDs": the replicates a CHROM change appends
\* a drawn locus to
draw_replicates(replicates_IDs) == Range(replicates_IDs)

\* the buffer kept across a CHROM change (mutant of buffer_after_draw)
buffer_not_reset(buffer) == buffer

\* temp_SNPs = [] after the draws
buffer_after_draw(buffer) == <<>>

-----------------------------------------------------------------------------
(* Python's order of strings: by code point, a proper prefix first *)

\* the characters of the model's names, in ascending code point order
CharOrder == <<"0", "1", "2", "3", "4", "5", "6", "7", "8", "9", "i", "s">>

CharRank(ch) == CHOOSE k \in DOMAIN CharOrder : CharOrder[k] = ch

RECURSIVE StrLess(_, _)
StrLess(a, b) ==
    IF b = <<>> THEN FALSE
    ELSE IF a = <<>> THEN TRUE
    ELSE IF Head(a) = Head(b) THEN StrLess(Tail(a), Tail(b))
    ELSE CharRank(Head(a)) < CharRank(Head(b))

\* sorted(S) for a set S of strings
RECURSIVE sorted(_)
sorted(S) ==
    IF S = {} THEN <<>>
    ELSE LET least == CHOOSE x \in S : \A y \in S \ {x} : StrLess(x, y)
         IN  <<least>> \o sorted(S \ {least})

-----------------------------------------------------------------------------
(* get_structure_genotype *)

\* the table with '0' for the missing symbol (mutant of GENOTYPE_CONVERSION)
GENOTYPE_CONVERSION_missing_zero ==
    [ch \in {"A", "T", "G", "C", "."} |->
        CASE ch = "A" -> "10" [] ch = "T" -> "11" [] ch = "G" -> "12"
          [] ch = "C" -> "13" [] ch = "." -> "0"]

GENOTYPE_CONVERSION ==
    [ch \in {"A", "T", "G", "C", "."} |->
        CASE ch = "A" -> "10" [] ch = "T" -> "11" [] ch = "G" -> "12"
          [] ch = "C" -> "13" [] ch = "." -> "-9"]

\* The pair of codes returned, or the exception raised: genotype[0] and
\* genotype[2] are the first and the third character of the call.
get_structure_genotype(genotype) ==
    LET g == IF genotype = None \/ genotype = <<>> THEN <<".", "/", ".">>
             ELSE genotype
        raise(e) == [raised |-> e, codes |-> <<>>]
    IN  IF g[1] \notin DOMAIN GENOTYPE_CONVERSION THEN raise("KeyError")
        ELSE IF Len(g) < 3 THEN raise("IndexError")
        ELSE IF g[3] \notin DOMAIN GENOTYPE_CONVERSION THEN raise("KeyError")
        ELSE [raised |-> "",
              codes  |-> <<GENOTYPE_CONVERSION[g[1]], GENOTYPE_CONVERSION[g[3]]>>]

Raised(v) == v.raised # ""

-----------------------------------------------------------------------------
(* generate_structure_file *)

\* the records whose key is in the replicate's list, in stream order
RECURSIVE SelectedRecords(_, _)
SelectedRecords(stream, selection) ==
    IF stream = <<>> THEN <<>>
    ELSE LET record == Head(stream)
             rest   == SelectedRecords(Tail(stream), selection)
         IN  IF snp_key(record.CHROM, record.POS) \in Range(selection)
             THEN <<record>> \o rest ELSE rest

\* record.genotype(indiv).gt_bases converted; a sample the file does not
\* hold is a KeyError of the reader
converted(record, indiv) ==
    IF indiv \notin DOMAIN record.calls THEN [raised |-> "KeyError", codes |-> <<>>]
    ELSE get_structure_genotype(record.calls[indiv])

\* pops.index(label) with the 0-based index kept (mutant of pop_index)
pop_index_zero_based(names, i, pops_of) ==
    Cardinality({pops_of[names[j]] : j \in 1..i}) - 1

\* The integer written for the i-th individual of the sorted list: pops
\* holds the labels of individuals 1..i in order of first appearance, the
\* i-th individual's label is its last new entry or an earlier one, and
\* pops.index(label) + 1 is the number of distinct labels up to the first
\* individual carrying that label.
pop_index(names, i, pops_of) ==
    LET first == CHOOSE j \in 1..i :
                    /\ pops_of[names[j]] = pops_of[names[i]]
                    /\ \A k \in 1..(j - 1) : pops_of[names[k]] # pops_of[names[i]]
    IN  Cardinality({pops_of[names[j]] : j \in 1..first})

\* The outcome of generate_structure_file(vcf, selected_snps, indvs_pops,
\* replicate): the exception raised while converting, in which case no file
\* is opened, or the lines written to the replicate's file.
\* open(replicate, 'w') before the conversions: an empty file is left when
\* one of them raises (mutant of file_when_raised)
file_opened_first == <<>>

\* What the replicate's file is when a conversion raised: the loop of the
\* conversions (l.208-220) ends before open(replicate, 'w') (l.223), so
\* there is no file.
file_when_raised == None

generate_structure_file(stream, selection, pops_of) ==
    LET records == SelectedRecords(stream, selection)
        names   == sorted(DOMAIN pops_of)
        failed  == \E k \in DOMAIN records, indiv \in DOMAIN pops_of :
                      Raised(converted(records[k], indiv))
        genotypes(indiv, allele) ==
            [k \in DOMAIN records |-> converted(records[k], indiv).codes[allele]]
        line(i, allele) ==
            [indiv_count |-> i,
             pop         |-> pop_index(names, i, pops_of),
             genotypes   |-> genotypes(names[i], allele)]
    IN  IF failed THEN [raised |-> TRUE, file |-> file_when_raised]
        ELSE [raised |-> FALSE,
              file   |-> [n \in 1..(2 * Len(names)) |->
                             line((n + 1) \div 2, IF n % 2 = 1 THEN 1 ELSE 2)]]

-----------------------------------------------------------------------------
(* convert_clumpp_to_csv: the look-up of a row's individual *)

\* int(text) for a text of decimal digits
RECURSIVE int(_)
int(text) ==
    IF text = <<>> THEN 0
    ELSE 10 * int(SubSeq(text, 1, Len(text) - 1))
         + (CHOOSE d \in 0..9 : Digits[d + 1] = text[Len(text)])

IndexError == <<"IndexError">>

\* list[k] of Python for an integer k: a negative k counts from the end
list_item(list, k) ==
    IF k >= 0 /\ k < Len(list) THEN list[k + 1]
    ELSE IF k < 0 /\ -k <= Len(list) THEN list[Len(list) + k + 1]
    ELSE IndexError

\* indiv_name[int(cols[1])]: the offset forgotten (mutant of csv_sample)
csv_sample_no_offset(pops_of, col) == list_item(sorted(DOMAIN pops_of), int(col))

\* sample = indiv_name[int(cols[1]) - 1], indiv_name being the sorted keys
csv_sample(pops_of, col) == list_item(sorted(DOMAIN pops_of), int(col) - 1)

\* pop_name = indvs_pops[sample]
csv_pop_name(pops_of, col) == pops_of[csv_sample(pops_of, col)]

\* the first column '{0}'.format(indiv_count) of an encoded line, which the
\* inference and alignment programs carry as the individual's label into
\* the second column of the rows convert_clumpp_to_csv reads
label_text(line) == DecStr(line.indiv_count)

-----------------------------------------------------------------------------
(* Population files and genotype calls of the model *)

IndivName(k) == <<"s">> \o DecStr(k)

\* lexicographic order differs from numeric order on these
IndivNumbers == {1, 2, 10, 21}

PopLabels == {"north", "south", "east"}

PopFiles ==
    UNION {[names -> PopLabels] :
              names \in {S \in SUBSET {IndivName(k) : k \in IndivNumbers} :
                            Cardinality(S) \in 1..MaxIndivs}}

CallList == <<<<"A", "/", "T">>, None, <<"G", "/", "C">>, <<".", "/", ".">>,
              <<"C", "|", "C">>>>

\* the stream with calls for the individuals of names: record k gives the
\* i-th name the call k + i of CallList (cyclically)
WithCalls(stream, names) ==
    [k \in DOMAIN stream |->
        [CHROM |-> stream[k].CHROM, POS |-> stream[k].POS,
         calls |-> [nm \in Range(names) |->
                       LET i == CHOOSE j \in DOMAIN names : names[j] = nm
                       IN  CallList[((k + i) % Len(CallList)) + 1]]]]

\* The values gt_bases can have: None for a call that was not made, or the
\* alleles of the call joined by '/' (unphased) or '|' (phased); an allele is
\* '.' or a text of REF/ALT bases, and a haploid call has one allele.
Bases == {"A", "T", "G", "C", "N"}

Alleles ==
    {<<".">>} \cup UNION {[1..n -> Bases] : n \in 1..MaxAlleleLen}

GenotypeCalls ==
    {None, <<>>}
        \cup Alleles
        \cup {a \o <<sep>> \o b : a, b \in Alleles, sep \in {"/", "|"}}

\* the alleles of a call: the texts between its separators
RECURSIVE alleles_of(_)
alleles_of(call) ==
    IF \A i \in DOMAIN call : call[i] \notin {"/", "|"} THEN <<call>>
    ELSE LET i == CHOOSE j \in DOMAIN call :
                     /\ call[j] \in {"/", "|"}
                     /\ \A k \in 1..(j - 1) : call[k] \notin {"/", "|"}
         IN  <<SubSeq(call, 1, i - 1)>> \o alleles_of(SubSeq(call, i + 1, Len(call)))

-----------------------------------------------------------------------------
(* generate_clumpp_input.  A file is the sequence of its lines, a line the   *)
(* text before its newline.                                                  *)

STRUCTURE_ANCESTRY_HEADER ==
    <<"I", "n", "f", "e", "r", "r", "e", "d", " ", "a", "n", "c", "e",
      "s", "t", "r", "y", " ", "o", "f", " ", "i", "n", "d", "i", "v",
      "i", "d", "u", "a", "l", "s", ":">>

RECURSIVE lstrip(_)
lstrip(text) ==
    IF text # <<>> /\ Head(text) = " " THEN lstrip(Tail(text)) ELSE text

RECURSIVE rstrip(_)
rstrip(text) ==
    IF text # <<>> /\ text[Len(text)] = " "
    THEN rstrip(SubSeq(text, 1, Len(text) - 1)) ELSE text

\* line.strip()
strip(text) == rstrip(lstrip(text))

\* line[:5] = 'Label', the line not stripped (mutant of is_label_line)
is_label_line_unstripped(line) ==
    SubSeq(line, 1, IF Len(line) < 5 THEN Len(line) ELSE 5)
        = <<"L", "a", "b", "e", "l">>

\* line.strip()[:5] = 'Label'
is_label_line(line) ==
    SubSeq(strip(line), 1, IF Len(strip(line)) < 5 THEN Len(strip(line)) ELSE 5)
        = <<"L", "a", "b", "e", "l">>

\* The lines "for line in structure_file" writes to the aggregate file, from
\* the lines not yet read and the flag reached_ancestry_table.
RECURSIVE ancestry_lines(_, _)
ancestry_lines(lines, reached_ancestry_table) ==
    IF lines = <<>> THEN <<>>
    ELSE LET line == Head(lines)
         IN  IF strip(line) = STRUCTURE_ANCESTRY_HEADER
             THEN ancestry_lines(Tail(lines), TRUE)
             ELSE IF reached_ancestry_table /\ strip(line) = <<>>
             THEN <<>>
             ELSE IF reached_ancestry_table /\ ~is_label_line(line)
             THEN <<line>> \o ancestry_lines(Tail(lines), reached_ancestry_table)
             ELSE ancestry_lines(Tail(lines), reached_ancestry_table)

\* The lines of the model's result files: the header, an empty line, a line
\* of blanks, the column header as the inference program indents it, and
\* two rows of the table.
ResultLines ==
    {STRUCTURE_ANCESTRY_HEADER, <<>>, <<" ">>,
     <<" ", "L", "a", "b", "e", "l", " ", "P", "o", "p">>,
     <<" ", "1", " ", "0", ".", "9">>, <<"2", " ", "0", ".", "1">>}

\* the result files of up to MaxFileLines lines; the inference program
\* writes the header once, a file cut short may lack it
ResultFiles ==
    {f \in UNION {[1..n -> ResultLines] : n \in 0..MaxFileLines} :
        Cardinality({i \in DOMAIN f : f[i] = STRUCTURE_ANCESTRY_HEADER}) <= 1}

\* result files that are told apart by their rows
FewResultFiles ==
    {<<STRUCTURE_ANCESTRY_HEADER, <<"2", " ", "0", ".", "1">>, <<>>>>,
     <<<<"2", " ", "0", ".", "1">>>>,
     <<STRUCTURE_ANCESTRY_HEADER, <<" ", "1", " ", "0", ".", "9">>>>}

-----------------------------------------------------------------------------
(* parallelise and main: the operations of a run *)

\* An operation of the run: the function a worker or main applies, the K it
\* is applied for (0 for none) and the replicate (-1 for none).
Op(stage, k, rep) == [stage |-> stage, K |-> k, rep |-> rep]

NoOp == Op("none", 0, -1)

\* range(2, int(maxK) + 1)
KRange(m) == 2..m

\* Pool(processes=len(batches[0]))
pool_processes(bs) == Len(bs[1])

\* a map that returns once its tasks are handed out, as map_async does
\* (mutant of map_finished)
map_finished_on_dispatch(q, run) == q = <<>>

\* pool.map blocks until every task of the batch has finished
map_finished(q, run) ==
    q = <<>> /\ \A w \in DOMAIN run : run[w] = [stage |-> "none", K |-> 0, rep |-> -1]

\* pool.map with the workers' exceptions dropped (mutant of map_outcome)
map_outcome_swallowed(res) == "return"

\* pool.map(function, batch): once every task has finished it returns, or
\* raises in main the exception a task raised
map_outcome(res) ==
    IF \E r \in DOMAIN res : res[r] = "raised" THEN "raise" ELSE "return"

\* the inference and the harvest of a K in one loop (mutant of
\* after_parallelise)
after_parallelise_fused(pc, k, m) ==
    IF pc = "encode"
    THEN IF 2 \in KRange(m) THEN [pc |-> "structure", K |-> 2]
         ELSE [pc |-> "done", K |-> 0]
    ELSE [pc |-> "harvest", K |-> k]

\* the inference loop over range(2, int(maxK)), without the last K (mutant
\* of after_parallelise)
after_parallelise_short(pc, k, m) ==
    IF pc = "encode"
    THEN IF 2 \in KRange(m - 1) THEN [pc |-> "structure", K |-> 2]
         ELSE IF 2 \in KRange(m) THEN [pc |-> "harvest", K |-> 2]
         ELSE [pc |-> "done", K |-> 0]
    ELSE IF k + 1 \in KRange(m - 1) THEN [pc |-> "structure", K |-> k + 1]
         ELSE [pc |-> "harvest", K |-> 2]

\* Where main goes when parallelise returns: from the encoding to the first
\* K of the inference loop, from the inference for K to the next K, and
\* after the last K to the first K of the harvest loop.  For maxK < 2 all
\* three loops over K are empty and main ends.
after_parallelise(pc, k, m) ==
    IF pc = "encode"
    THEN IF 2 \in KRange(m) THEN [pc |-> "structure", K |-> 2]
         ELSE [pc |-> "done", K |-> 0]
    ELSE IF k + 1 \in KRange(m) THEN [pc |-> "structure", K |-> k + 1]
         ELSE [pc |-> "harvest", K |-> 2]

\* where main goes after convert_clumpp_to_csv for K
after_harvest(k, m) ==
    IF k + 1 \in KRange(m) THEN [pc |-> "harvest", K |-> k + 1]
    ELSE [pc |-> "stats", K |-> 2]

\* main ends after the indices of the first K (mutant of after_stats)
after_stats_first_only(k, m) == [pc |-> "done", K |-> 0]

\* where main goes after the indices of K are printed
after_stats(k, m) ==
    IF k + 1 \in KRange(m) THEN [pc |-> "stats", K |-> k + 1]
    ELSE [pc |-> "done", K |-> 0]

Bump(f, op) == [f EXCEPT ![op] = @ + 1]

-----------------------------------------------------------------------------
(* calc_clust_stats.  A membership value is a number of tenths; a mean or   *)
(* a median is the fraction <<numerator, denominator>>, denominator > 0.    *)

RECURSIVE SumSeq(_)
SumSeq(xs) == IF xs = <<>> THEN 0 ELSE Head(xs) + SumSeq(Tail(xs))

\* the integers of xs in ascending order
RECURSIVE SortInts(_)
SortInts(xs) ==
    IF xs = <<>> THEN <<>>
    ELSE LET i == CHOOSE j \in DOMAIN xs : \A k \in DOMAIN xs : xs[j] <= xs[k]
         IN  <<xs[i]>> \o SortInts(SubSeq(xs, 1, i - 1) \o SubSeq(xs, i + 1, Len(xs)))

FracLess(a, b) == a[1] * b[2] < b[1] * a[2]

FracEq(a, b) == a[1] * b[2] = b[1] * a[2]

\* numpy.mean of a list of values given in units of 1/unit
numpy_mean(xs, unit) == <<SumSeq(xs), unit * Len(xs)>>

\* numpy.median of a list of values given in units of 1/unit
numpy_median(xs, unit) ==
    LET ys == SortInts(xs)
        n  == Len(ys)
    IN  IF n % 2 = 1 THEN <<ys[(n + 1) \div 2], unit>>
        ELSE <<ys[n \div 2] + ys[n \div 2 + 1], 2 * unit>>

\* numpy.max of a non-empty set of fractions
numpy_max(fs) == CHOOSE f \in fs : \A g \in fs : ~FracLess(f, g)

\* "> 0.5"
over_threshold(f) == 2 * f[1] > f[2]

\* cluster_assign[cluster_number][pop]: the values of the column, in row
\* order, of the rows of the population
RECURSIVE cluster_assign(_, _, _)
cluster_assign(table, cluster_number, pop) ==
    IF table = <<>> THEN <<>>
    ELSE LET rest == cluster_assign(Tail(table), cluster_number, pop)
         IN  IF Head(table).pop = pop
             THEN <<Head(table).clusters[cluster_number]>> \o rest
             ELSE rest

PopsOf(table) == {table[i].pop : i \in DOMAIN table}

ClustersOf(table) == IF table = <<>> THEN {} ELSE DOMAIN table[1].clusters

\* cluster_mean[cluster_number]: the mean of every population (line 274)
cluster_mean(table, c) ==
    {numpy_mean(cluster_assign(table, c, pop), 10) : pop \in PopsOf(table)}

\* cluster_median[cluster_number]: line 276 appends mean, not median
cluster_median(table, c) ==
    {numpy_mean(cluster_assign(table, c, pop), 10) : pop \in PopsOf(table)}

\* lines 279-289
mean_threshold_count(table) ==
    Cardinality({c \in ClustersOf(table) :
                    over_threshold(numpy_max(cluster_mean(table, c)))})

median_threshold_count(table) ==
    Cardinality({c \in ClustersOf(table) :
                    over_threshold(numpy_max(cluster_median(table, c)))})

\* lines 293-300: the four values returned
clust_stats_result(means, medians) ==
    [MedMeaK |-> numpy_median(means, 1),
     MaxMeaK |-> numpy_max({<<means[i], 1>> : i \in DOMAIN means}),
     MedMedK |-> numpy_median(means, 1),
     MaxMedK |-> numpy_max({<<means[i], 1>> : i \in DOMAIN means})]

\* the rows of a permutation table of 2 clusters, in tenths
MembershipRows == {<<10, 0>>, <<5, 5>>, <<2, 8>>, <<0, 10>>}

PermTablePops == {<<"north", "north", "north">>, <<"north", "north", "south">>}

PermTables(pops) ==
    {[i \in DOMAIN pops |-> [pop |-> pops[i], clusters |-> rows[i]]] :
        rows \in [DOMAIN pops -> MembershipRows]}

-----------------------------------------------------------------------------
(* Values of the variables a specification does not use *)

BatchIdle ==
    /\ batches = <<>> /\ temp_batch = <<>> /\ count = 0 /\ total_count = 0
    /\ gb_pc = "idle"

SampleIdle ==
    /\ selected_snps = <<>> /\ temp_SNPs = <<>> /\ previous_CHROM = <<>>
    /\ rec_idx = 0 /\ sample_pc = "idle"

EncodeIdle == encoded = <<>>

\* structure_genotype before get_structure_genotype was called
NotCalled == [raised |-> "not called", codes |-> <<>>]

GenotypeIdle == gt_bases = None /\ structure_genotype = NotCalled

HarvestIdle ==
    /\ structure_files = <<>> /\ clumpp_file = <<>> /\ harvest_idx = 0
    /\ harvest_pc = "idle"

RunIdle ==
    /\ maxK = 0 /\ main_pc = "idle" /\ K = 0 /\ batch_no = 0 /\ pool_size = 0
    /\ taskq = <<>> /\ running = <<>> /\ results = <<>>
    /\ invocations = <<>> /\ ended = {} /\ raised = {}
    /\ first_nonzero = [stage |-> "none", K |-> 0, rep |-> -1] /\ out_missing = {} /\ aligner_out_missing = FALSE
    /\ hung = {}

StatsIdle ==
    /\ perm_tables = <<>> /\ stats_x = 0 /\ mean_thresholds = <<>>
    /\ median_thresholds = <<>> /\ stats_pc = "idle" /\ stats_result = None

-----------------------------------------------------------------------------
(* get_structure_genotype applied to one call *)

InitGenotype ==
    /\ HarvestIdle
    /\ vcf_filename = <<>>
    /\ gt_bases \in GenotypeCalls
    /\ structure_genotype = NotCalled
    /\ replicate_IDs = <<>> /\ threads = 1 /\ vcf = <<>> /\ indvs_pops = <<>>
    /\ BatchIdle /\ SampleIdle /\ EncodeIdle /\ RunIdle /\ StatsIdle

ConvertGenotype ==
    /\ structure_genotype = NotCalled
    /\ structure_genotype' = get_structure_genotype(gt_bases)
    /\ UNCHANGED <<gt_bases, replicate_IDs, threads, vcf, indvs_pops,
                   vcf_filename, harvestVars, batchVars, sampleVars, encodeVars, runVars, statsVars>>

NextGenotype == ConvertGenotype

SpecGenotype == InitGenotype /\ [][NextGenotype]_vars

-----------------------------------------------------------------------------
(* generate_clumpp_input, one replicate at a time *)

\* two replicates: any result file for one, one of a few for the other
InitHarvest ==
    /\ \E f \in ResultFiles, g \in FewResultFiles :
          structure_files \in {<<f, g>>, <<g, f>>}
    /\ clumpp_file = <<>>
    /\ harvest_idx = 1
    /\ harvest_pc = "loop"
    /\ replicate_IDs = generate_identifiers(0, 2)
    /\ threads = 1 /\ vcf = <<>> /\ indvs_pops = <<>> /\ vcf_filename = <<>>
    /\ GenotypeIdle
    /\ BatchIdle /\ SampleIdle /\ EncodeIdle /\ RunIdle /\ StatsIdle

\* one iteration of "for replicate in replicate_IDs": the lines of the
\* table are copied, then clumpp_file.write('\n')
HarvestFile ==
    /\ harvest_pc = "loop"
    /\ harvest_idx \in DOMAIN replicate_IDs
    /\ clumpp_file' = clumpp_file
                          \o ancestry_lines(structure_files[harvest_idx], FALSE)
                          \o << <<>> >>
    /\ harvest_idx' = harvest_idx + 1
    /\ UNCHANGED <<structure_files, harvest_pc, replicate_IDs, threads, vcf,
                   indvs_pops, vcf_filename, genoVars, batchVars, sampleVars,
                   encodeVars, runVars, statsVars>>

\* the loop has ended: generate_clumpp_input returns
HarvestReturn ==
    /\ harvest_pc = "loop"
    /\ harvest_idx > Len(replicate_IDs)
    /\ harvest_pc' = "returned"
    /\ UNCHANGED <<structure_files, clumpp_file, harvest_idx, replicate_IDs,
                   threads, vcf, indvs_pops, vcf_filename, genoVars, batchVars,
                   sampleVars, encodeVars, runVars, statsVars>>

NextHarvest == HarvestFile \/ HarvestReturn

SpecHarvest == InitHarvest /\ [][NextHarvest]_vars

-----------------------------------------------------------------------------
(* generate_batches, one loop iteration at a time *)

InitBatch ==
    /\ HarvestIdle
    /\ vcf_filename = <<>>
    /\ GenotypeIdle
    /\ \E ts \in 0..MaxTimestamp, n \in 0..MaxReps :
           replicate_IDs = generate_identifiers(ts, n)
    /\ threads \in 1..MaxThreads
    /\ vcf = <<>> /\ indvs_pops = <<>>
    /\ batches = gb_start.batches /\ temp_batch = gb_start.temp_batch
    /\ count = gb_start.count /\ total_count = gb_start.total_count
    /\ gb_pc = "loop"
    /\ SampleIdle /\ EncodeIdle /\ RunIdle /\ StatsIdle

\* for replicate in replicate_IDs: ... (the iterator has yielded total_count
\* identifiers so far)
GbIterate ==
    /\ gb_pc = "loop"
    /\ total_count < Len(replicate_IDs)
    /\ LET s == gb_body([batches |-> batches, temp_batch |-> temp_batch,
                         count |-> count, total_count |-> total_count],
                        replicate_IDs[total_count + 1], threads,
                        Len(replicate_IDs))
       IN  /\ batches' = s.batches
           /\ temp_batch' = s.temp_batch
           /\ count' = s.count
           /\ total_count' = s.total_count
    /\ UNCHANGED <<gb_pc, inVars, sampleVars, encodeVars, runVars, statsVars>>

\* return batches
GbReturn ==
    /\ gb_pc = "loop"
    /\ total_count = Len(replicate_IDs)
    /\ gb_pc' = "returned"
    /\ UNCHANGED <<batches, temp_batch, count, total_count, inVars, sampleVars,
                   encodeVars, runVars, statsVars>>

NextBatch == GbIterate \/ GbReturn

SpecBatch == InitBatch /\ [][NextBatch]_vars

-----------------------------------------------------------------------------
(* select_random_snps, one record at a time *)

InitSample ==
    /\ HarvestIdle
    /\ vcf_filename = <<>>
    /\ GenotypeIdle
    /\ \E shape \in StreamShapes : vcf = StreamOf(shape, 1, <<>>)
    /\ \E n \in 1..MaxSampleReps : replicate_IDs = generate_identifiers(0, n)
    /\ threads = 1 /\ indvs_pops = <<>>
    /\ BatchIdle
    /\ selected_snps = [r \in Range(replicate_IDs) |-> <<>>]
    /\ temp_SNPs = <<>>
    /\ previous_CHROM = <<>>
    /\ rec_idx = 0
    /\ sample_pc = "loop"
    /\ EncodeIdle /\ RunIdle /\ StatsIdle

\* One iteration of "for record in vcf_reader".  random.randint raises
\* ValueError on an empty range and temp_SNPs[i] raises IndexError for
\* i >= len(temp_SNPs); both leave the function by an exception.
SampleRecord ==
    /\ sample_pc = "loop"
    /\ rec_idx < Len(vcf)
    /\ LET record == vcf[rec_idx + 1]
           key    == snp_key(record.CHROM, record.POS)
       IN  IF new_CHROM(previous_CHROM, record.CHROM)
           THEN IF randint_range(temp_SNPs) = {}
                THEN /\ sample_pc' = "error"
                     /\ UNCHANGED <<selected_snps, temp_SNPs, previous_CHROM,
                                    rec_idx>>
                ELSE \E draw \in [Range(replicate_IDs) -> randint_range(temp_SNPs)] :
                       IF \E r \in DOMAIN draw : draw[r] + 1 \notin DOMAIN temp_SNPs
                       THEN /\ sample_pc' = "error"
                            /\ UNCHANGED <<selected_snps, temp_SNPs,
                                           previous_CHROM, rec_idx>>
                       ELSE /\ selected_snps' =
                                 [r \in DOMAIN selected_snps |->
                                     IF r \in draw_replicates(replicate_IDs)
                                     THEN Append(selected_snps[r],
                                                 temp_SNPs[draw[r] + 1])
                                     ELSE selected_snps[r]]
                            /\ temp_SNPs' = Append(buffer_after_draw(temp_SNPs), key)
                            /\ previous_CHROM' = record.CHROM
                            /\ rec_idx' = rec_idx + 1
                            /\ UNCHANGED sample_pc
           ELSE /\ temp_SNPs' = Append(temp_SNPs, key)
                /\ previous_CHROM' = record.CHROM
                /\ rec_idx' = rec_idx + 1
                /\ UNCHANGED <<selected_snps, sample_pc>>
    /\ UNCHANGED <<inVars, batchVars, encodeVars, runVars, statsVars>>

\* return selected_snps (the buffer of the last CHROM is not drawn from)
SampleReturn ==
    /\ sample_pc = "loop"
    /\ rec_idx = Len(vcf)
    /\ sample_pc' = "returned"
    /\ UNCHANGED <<selected_snps, temp_SNPs, previous_CHROM, rec_idx, inVars,
                   batchVars, encodeVars, runVars, statsVars>>

NextSample == SampleRecord \/ SampleReturn

SpecSample == InitSample /\ [][NextSample]_vars

-----------------------------------------------------------------------------
(* Sampling followed by encoding: main's lines 360 and 366-368, without the *)
(* worker pool (each call writes its own replicate's file only).            *)

SampleStart ==
    /\ selected_snps = [r \in Range(replicate_IDs) |-> <<>>]
    /\ temp_SNPs = <<>>
    /\ previous_CHROM = <<>>
    /\ rec_idx = 0
    /\ sample_pc = "loop"

InitEncode ==
    /\ HarvestIdle
    /\ vcf_filename = <<>>
    /\ GenotypeIdle
    /\ indvs_pops \in PopFiles
    /\ vcf = WithCalls(StreamOf(<<2, 1, 1>>, 1, <<>>), sorted(DOMAIN indvs_pops))
    /\ replicate_IDs = generate_identifiers(0, 1)
    /\ threads = 1
    /\ BatchIdle
    /\ SampleStart
    /\ encoded = <<>>
    /\ RunIdle /\ StatsIdle

\* generate_structure_file applied to one replicate
EncodeReplicate ==
    /\ sample_pc = "returned"
    /\ \E replicate \in Range(replicate_IDs) \ DOMAIN encoded :
          encoded' = [r \in DOMAIN encoded \cup {replicate} |->
                         IF r = replicate
                         THEN generate_structure_file(vcf, selected_snps[r],
                                                      indvs_pops)
                         ELSE encoded[r]]
    /\ UNCHANGED <<inVars, batchVars, sampleVars, runVars, statsVars>>

NextEncode == SampleRecord \/ SampleReturn \/ EncodeReplicate

SpecEncode == InitEncode /\ [][NextEncode]_vars

\* Encoding with every mix of calls: individuals s1 (north) and s2 (south),
\* contigs c1 (2 records), c2 and c3 (1 record each), one replicate.  The
\* records of c1 and c2 carry any of EncodeCalls for either individual; with
\* same_POS the two records of c1 are two records of one position, which a
\* variant file may hold (one per alternative allele).
EncodeCalls ==
    {None, <<>>, <<".", "/", ".">>, <<"A", "/", "T">>, <<"N", "/", "A">>}

CallStreams ==
    LET names == {IndivName(1), IndivName(2)}
        plain == StreamOf(<<2, 1, 1>>, 1, <<>>)
    IN  {[k \in DOMAIN plain |->
            [CHROM |-> plain[k].CHROM,
             POS   |-> IF same_POS /\ k = 2 THEN 1 ELSE plain[k].POS,
             calls |-> IF k = 4 THEN [nm \in names |-> <<"G", "|", "C">>]
                       ELSE IF k = 3 THEN [nm \in names |-> c3[nm]]
                       ELSE [nm \in names |-> c12[k][nm]]]] :
            same_POS \in BOOLEAN,
            c12 \in [1..2 -> [names -> EncodeCalls]],
            c3 \in [names -> {<<".", "/", ".">>, <<"A", "/", "T">>,
                              <<"N", "/", "A">>}]}

InitCalls ==
    /\ HarvestIdle
    /\ vcf_filename = <<>>
    /\ GenotypeIdle
    /\ indvs_pops = (IndivName(1) :> "north" @@ IndivName(2) :> "south")
    /\ vcf \in CallStreams
    /\ replicate_IDs = generate_identifiers(0, 1)
    /\ threads = 1
    /\ BatchIdle
    /\ SampleStart
    /\ EncodeIdle
    /\ RunIdle /\ StatsIdle

SpecCalls == InitCalls /\ [][NextEncode]_vars

\* The end-to-end scenario: 6 individuals in 2 populations, 3 contigs of 2
\* loci, replicates = 4, threads = 2.
InitScenario ==
    /\ HarvestIdle
    /\ vcf_filename = <<>>
    /\ GenotypeIdle
    /\ indvs_pops = [nm \in {IndivName(k) : k \in 1..6} |->
                        IF nm \in {IndivName(k) : k \in 1..3} THEN "north"
                        ELSE "south"]
    /\ vcf = WithCalls(StreamOf(<<2, 2, 2>>, 1, <<>>), sorted(DOMAIN indvs_pops))
    /\ replicate_IDs = generate_identifiers(0, 4)
    /\ threads = 2
    /\ batches = generate_batches(replicate_IDs, threads)
    /\ temp_batch = <<>> /\ count = 0 /\ total_count = Len(replicate_IDs)
    /\ gb_pc = "returned"
    /\ SampleStart
    /\ encoded = <<>>
    /\ RunIdle /\ StatsIdle

SpecScenario == InitScenario /\ [][NextEncode]_vars

-----------------------------------------------------------------------------
(* main from line 360 on, with parallelise and the workers of its pools *)

AllOps(m, ids) ==
    {Op("sample", 0, -1)}
    \cup {Op("encode", 0, r) : r \in Range(ids)}
    \cup {Op("structure", k, r) : k \in KRange(m), r \in Range(ids)}
    \cup {Op(st, k, -1) : st \in {"harvest", "aligner", "stats"}, k \in KRange(m)}

InitRun ==
    /\ HarvestIdle
    /\ vcf_filename \in VcfFilenames
    /\ GenotypeIdle
    /\ \E n \in 0..MaxRunReps : replicate_IDs = generate_identifiers(0, n)
    /\ threads \in 1..MaxRunThreads
    /\ maxK \in 1..MaxK
    /\ vcf = <<>> /\ indvs_pops = <<>>
    /\ batches = generate_batches(replicate_IDs, threads)
    /\ temp_batch = <<>> /\ count = 0 /\ total_count = Len(replicate_IDs)
    /\ gb_pc = "returned"
    /\ SampleIdle /\ EncodeIdle /\ StatsIdle
    /\ main_pc = "sample" /\ K = 0 /\ batch_no = 0
    /\ pool_size = 0 /\ taskq = <<>> /\ running = <<>> /\ results = <<>>
    /\ invocations = [op \in AllOps(maxK, replicate_IDs) |-> 0]
    /\ ended = {} /\ raised = {}
    /\ first_nonzero = NoOp /\ out_missing = {} /\ aligner_out_missing = FALSE
    /\ hung = {}

poolVars == <<pool_size, taskq, running, results>>
histVars == <<invocations, ended, raised, first_nonzero, out_missing,
              aligner_out_missing>>
\* what the steps of a run leave as it is (hung: but for WorkerHang)
notRun   == <<inVars, batchVars, sampleVars, encodeVars, statsVars, maxK, hung>>

\* lines 360-361: select_random_snps, then the locus count of the first
\* replicate; replicate_IDs[0] raises IndexError when there is no replicate
MainSample ==
    /\ main_pc = "sample"
    /\ invocations' = Bump(invocations, Op("sample", 0, -1))
    /\ ended' = ended \cup {Op("sample", 0, -1)}
    /\ IF replicate_IDs = <<>>
       THEN main_pc' = "failed" /\ UNCHANGED batch_no
       ELSE main_pc' = "encode" /\ batch_no' = 1
    /\ UNCHANGED <<K, poolVars, raised, first_nonzero, out_missing,
                   aligner_out_missing, notRun>>

\* for batch in batches: pool = Pool(...); pool.map(function, batch) hands
\* the tasks of the batch to the pool (one task a chunk, as a batch is no
\* longer than the pool has workers)
PoolMap ==
    /\ main_pc \in {"encode", "structure"}
    /\ pool_size = 0
    /\ batch_no \in DOMAIN batches
    /\ pool_size' = pool_processes(batches)
    /\ taskq' = batches[batch_no]
    /\ running' = [w \in 1..pool_processes(batches) |-> NoOp]
    /\ results' = <<>>
    /\ UNCHANGED <<main_pc, K, batch_no, histVars, notRun>>

\* an idle worker takes the next task and begins the function on it
WorkerTake(w) ==
    /\ main_pc \in {"encode", "structure"}
    /\ pool_size > 0
    /\ running[w] = NoOp
    /\ taskq # <<>>
    /\ LET op == Op(main_pc, K, Head(taskq))
       IN  /\ running' = [running EXCEPT ![w] = op]
           /\ invocations' = Bump(invocations, op)
    /\ taskq' = Tail(taskq)
    /\ UNCHANGED <<main_pc, K, batch_no, pool_size, results, ended, raised,
                   first_nonzero, out_missing, aligner_out_missing, notRun>>

Finish(w, outcome) ==
    /\ running' = [running EXCEPT ![w] = NoOp]
    /\ results' = [r \in DOMAIN results \cup {running[w].rep} |->
                      IF r = running[w].rep THEN outcome ELSE results[r]]
    /\ ended' = ended \cup {running[w]}

\* The function returns in its worker.  generate_structure_file has written
\* its file; run_structure returns whatever exit status subprocess.call
\* gave it, and after a non-zero exit the result file may be absent.
WorkerReturn(w) ==
    /\ main_pc \in {"encode", "structure"}
    /\ pool_size > 0
    /\ running[w] # NoOp
    /\ w \notin hung
    /\ Finish(w, "ok")
    /\ IF main_pc = "structure"
       THEN \E status \in {0, 1}, written \in BOOLEAN :
               /\ (status = 0) => written
               /\ first_nonzero' = IF status # 0 /\ first_nonzero = NoOp
                                   THEN running[w] ELSE first_nonzero
               /\ out_missing' = IF written THEN out_missing
                                 ELSE out_missing \cup {K}
       ELSE UNCHANGED <<first_nonzero, out_missing>>
    /\ UNCHANGED <<main_pc, K, batch_no, pool_size, taskq, invocations, raised,
                   aligner_out_missing, notRun>>

\* The function raises in its worker: a lookup failure in
\* get_structure_genotype, an OSError of open or of subprocess.call.
WorkerRaise(w) ==
    /\ main_pc \in {"encode", "structure"}
    /\ pool_size > 0
    /\ running[w] # NoOp
    /\ w \notin hung
    /\ Finish(w, "raised")
    /\ raised' = raised \cup {running[w]}
    /\ UNCHANGED <<main_pc, K, batch_no, pool_size, taskq, invocations,
                   first_nonzero, out_missing, aligner_out_missing, notRun>>

\* pool.map ends when every task of the batch has finished (CPython from
\* 3.5.2 on; before, it raised at the first failed task): it raises in
\* main, which handles no exception, or returns, and then pool.close(),
\* pool.join() and the next batch
MapReturn ==
    /\ main_pc \in {"encode", "structure"}
    /\ pool_size > 0
    /\ map_finished(taskq, running)
    /\ IF map_outcome(results) = "raise"
       THEN /\ main_pc' = "failed"
            /\ UNCHANGED <<batch_no, pool_size>>
       ELSE /\ pool_size' = 0
            /\ batch_no' = batch_no + 1
            /\ UNCHANGED main_pc
    /\ UNCHANGED <<K, taskq, running, results, histVars, notRun>>

\* parallelise returns after the last batch
ParalleliseReturn ==
    /\ main_pc \in {"encode", "structure"}
    /\ pool_size = 0
    /\ batch_no > Len(batches)
    /\ LET next == after_parallelise(main_pc, K, maxK)
       IN  main_pc' = next.pc /\ K' = next.K
    /\ batch_no' = 1
    /\ UNCHANGED <<poolVars, histVars, notRun>>

\* create_clumpp_paramfile and generate_clumpp_input for K: open raises
\* when a replicate's result file for K does not exist
HarvestInput ==
    /\ main_pc = "harvest"
    /\ invocations' = Bump(invocations, Op("harvest", K, -1))
    /\ IF K \in out_missing
       THEN main_pc' = "failed" /\ ended' = ended \cup {Op("harvest", K, -1)}
       ELSE main_pc' = "run_clumpp" /\ UNCHANGED ended
    /\ UNCHANGED <<K, batch_no, poolVars, raised, first_nonzero, out_missing,
                   aligner_out_missing, notRun>>

\* run_clumpp: subprocess.call, its exit status dropped
RunClumpp ==
    /\ main_pc = "run_clumpp"
    /\ invocations' = Bump(invocations, Op("aligner", K, -1))
    /\ ended' = ended \cup {Op("aligner", K, -1)}
    /\ \E status \in {0, 1}, written \in BOOLEAN :
          /\ (status = 0) => written
          /\ first_nonzero' = IF status # 0 /\ first_nonzero = NoOp
                              THEN Op("aligner", K, -1) ELSE first_nonzero
          /\ aligner_out_missing' = ~written
    /\ main_pc' = "convert"
    /\ UNCHANGED <<K, batch_no, poolVars, raised, out_missing, notRun>>

\* convert_clumpp_to_csv: open raises when CLUMPP left no output
ConvertCsv ==
    /\ main_pc = "convert"
    /\ ended' = ended \cup {Op("harvest", K, -1)}
    /\ IF aligner_out_missing
       THEN main_pc' = "failed" /\ UNCHANGED K
       ELSE LET next == after_harvest(K, maxK)
            IN  main_pc' = next.pc /\ K' = next.K
    /\ UNCHANGED <<batch_no, poolVars, invocations, raised, first_nonzero,
                   out_missing, aligner_out_missing, notRun>>

\* calc_clust_stats for K and the line printed for it
MainStats ==
    /\ main_pc = "stats"
    /\ invocations' = Bump(invocations, Op("stats", K, -1))
    /\ ended' = ended \cup {Op("stats", K, -1)}
    /\ LET next == after_stats(K, maxK)
       IN  main_pc' = next.pc /\ K' = next.K
    /\ UNCHANGED <<batch_no, poolVars, raised, first_nonzero, out_missing,
                   aligner_out_missing, notRun>>

NextRun ==
    \/ MainSample
    \/ PoolMap
    \/ \E w \in DOMAIN running : WorkerTake(w)
    \/ \E w \in DOMAIN running : WorkerReturn(w)
    \/ \E w \in DOMAIN running : WorkerRaise(w)
    \/ MapReturn
    \/ ParalleliseReturn
    \/ HarvestInput
    \/ RunClumpp
    \/ ConvertCsv
    \/ MainStats

SpecRun == InitRun /\ [][NextRun]_vars

-----------------------------------------------------------------------------
(* The run in which no operation fails, but an external process may never   *)
(* finish.  Nothing in the code ends a wait: subprocess.call has no timeout *)
(* and pool.map none either.                                                *)

InitLive ==
    /\ InitRun
    /\ replicate_IDs # <<>>
    /\ vcf_filename = <<"a", ".", "v", "c", "f">>

\* the function returns in its worker, the inference program having exited
\* with status 0 and written its result file
WorkerReturnOk(w) ==
    /\ WorkerReturn(w)
    /\ first_nonzero' = first_nonzero
    /\ out_missing' = out_missing

\* the inference program of worker w never exits: subprocess.call in
\* run_structure does not return
WorkerHang(w) ==
    /\ main_pc = "structure"
    /\ pool_size > 0
    /\ running[w] # NoOp
    /\ w \notin hung
    /\ hung' = hung \cup {w}
    /\ UNCHANGED <<main_pc, K, batch_no, poolVars, histVars, inVars, batchVars,
                   sampleVars, encodeVars, statsVars, maxK>>

\* run_clumpp, the aligner having exited with status 0 and written its output
RunClumppOk ==
    /\ RunClumpp
    /\ first_nonzero' = first_nonzero
    /\ ~aligner_out_missing'

\* the steps of main and of the workers that are not the hanging of a process
Progress ==
    \/ MainSample
    \/ PoolMap
    \/ \E w \in DOMAIN running : WorkerTake(w)
    \/ \E w \in DOMAIN running : WorkerReturnOk(w)
    \/ MapReturn
    \/ ParalleliseReturn
    \/ HarvestInput
    \/ RunClumppOk
    \/ ConvertCsv
    \/ MainStats

NextLive == Progress \/ \E w \in DOMAIN running : WorkerHang(w)

\* main and every worker process are scheduled: a step that can be taken
\* is taken, unless a process hangs
SpecLive == InitLive /\ [][NextLive]_vars /\ WF_vars(Progress)

-----------------------------------------------------------------------------
(* The order of the operations of a run, for the statements about it *)

\* the place of an operation's stage in the order sampling, encoding,
\* inference for K = 2..maxK, harvest for K = 2..maxK, estimation for
\* K = 2..maxK
StageRank(op, m) ==
    CASE op.stage = "sample"    -> 0
      [] op.stage = "encode"    -> 1
      [] op.stage = "structure" -> op.K
      [] op.stage \in {"harvest", "aligner"} -> m + op.K - 1
      [] op.stage = "stats"     -> 2 * m + op.K - 2

BatchOf(rep) == CHOOSE b \in DOMAIN batches : rep \in Range(batches[b])

\* op1 belongs to an earlier stage than op2, or to an earlier batch of the
\* same stage
Precedes(op1, op2, m) ==
    \/ StageRank(op1, m) < StageRank(op2, m)
    \/ /\ StageRank(op1, m) = StageRank(op2, m)
       /\ op1.rep # -1 /\ op2.rep # -1
       /\ BatchOf(op1.rep) < BatchOf(op2.rep)

Begun == {op \in DOMAIN invocations : invocations[op] > 0}

Busy == {w \in DOMAIN running : running[w] # NoOp}

\* the identifier text of the replicate with id_number rep in this run
ReplicatePath(rep) ==
    identifier(init_output_folder(vcf_filename, 0), vcf_filename, rep)

\* The files a worker operation writes: generate_structure_file the encoded
\* file; run_structure the log it opens for the standard output and, through
\* the inference program started with -o output_filename, the result file
\* output_filename + '_f' that generate_clumpp_input reads.
Written(op) ==
    IF op.stage = "encode" THEN {ReplicatePath(op.rep)}
    ELSE IF op.stage = "structure"
    THEN {stdout_filename(ReplicatePath(op.rep), op.K),
          output_filename(ReplicatePath(op.rep), op.K) \o <<"_", "f">>}
    ELSE {}

WorkerOps == {op \in DOMAIN invocations : op.stage \in {"encode", "structure"}}

-----------------------------------------------------------------------------
(* calc_clust_stats, one permutation table at a time *)

InitStats ==
    /\ HarvestIdle
    /\ vcf_filename = <<>>
    /\ GenotypeIdle
    /\ \E pops \in PermTablePops, R \in 1..MaxPermReps :
          perm_tables \in [1..R -> PermTables(pops)]
    /\ stats_x = 1
    /\ mean_thresholds = <<>> /\ median_thresholds = <<>>
    /\ stats_pc = "loop" /\ stats_result = None
    /\ replicate_IDs = <<>> /\ threads = 1 /\ vcf = <<>> /\ indvs_pops = <<>>
    /\ BatchIdle /\ SampleIdle /\ EncodeIdle /\ RunIdle

\* one iteration of "for x in range(1, int(replicates) + 1)"
StatsTable ==
    /\ stats_pc = "loop"
    /\ stats_x \in DOMAIN perm_tables
    /\ mean_thresholds' =
          Append(mean_thresholds, mean_threshold_count(perm_tables[stats_x]))
    /\ median_thresholds' =
          Append(median_thresholds, median_threshold_count(perm_tables[stats_x]))
    /\ stats_x' = stats_x + 1
    /\ UNCHANGED <<perm_tables, stats_pc, stats_result, inVars, batchVars,
                   sampleVars, encodeVars, runVars>>

\* return MedMeaK, MaxMeaK, MedMedK, MaxMedK
StatsReturn ==
    /\ stats_pc = "loop"
    /\ stats_x > Len(perm_tables)
    /\ stats_result' = clust_stats_result(mean_thresholds, median_thresholds)
    /\ stats_pc' = "returned"
    /\ UNCHANGED <<perm_tables, stats_x, mean_thresholds, median_thresholds,
                   inVars, batchVars, sampleVars, encodeVars, runVars>>

NextStats == StatsTable \/ StatsReturn

SpecStats == InitStats /\ [][NextStats]_vars

\* the number of clusters of a table whose largest per-population median
\* exceeds 0.5
MedianCount(table) ==
    Cardinality({c \in ClustersOf(table) :
        over_threshold(numpy_max({numpy_median(cluster_assign(table, c, pop), 10) :
                                     pop \in PopsOf(table)}))})

MedianCountSeries == [x \in DOMAIN perm_tables |-> MedianCount(perm_tables[x])]

-----------------------------------------------------------------------------
(* What the stream holds, for the statements about sampling *)

\* the CHROM values of the stream in order of first appearance
RECURSIVE ContigSeq(_)
ContigSeq(stream) ==
    IF stream = <<>> THEN <<>>
    ELSE LET front == ContigSeq(SubSeq(stream, 1, Len(stream) - 1))
             c     == stream[Len(stream)].CHROM
         IN  IF c \in Range(front) THEN front ELSE Append(front, c)

\* the locus keys the stream holds for contig c
KeysOf(stream, c) ==
    {snp_key(stream[i].CHROM, stream[i].POS) :
        i \in {j \in DOMAIN stream : stream[j].CHROM = c}}

\* num_loci = len(selected_snps[replicate_IDs[0]])
num_loci == Len(selected_snps[replicate_IDs[1]])

\* the records of every contig are contiguous
Grouped(stream) ==
    \A i, k \in DOMAIN stream :
        (i < k /\ stream[i].CHROM = stream[k].CHROM)
            => \A j \in i..k : stream[j].CHROM = stream[i].CHROM

-----------------------------------------------------------------------------
\* C1: generate_batches returns ceil(N/T) batches, each of T identifiers
\* except the last, which has between 1 and T, and the batches concatenated
\* in order are the original list.
C1_BatchesPartition ==
    gb_pc = "returned" =>
        LET N == Len(replicate_IDs)
            T == threads
        IN  /\ Len(batches) = (N + T - 1) \div T
            /\ \A i \in DOMAIN batches :
                   IF i < Len(batches) THEN Len(batches[i]) = T
                   ELSE Len(batches[i]) \in 1..T
            /\ Concat(batches) = replicate_IDs

C1_Witness ==
    /\ gb_pc = "returned"
    /\ Len(replicate_IDs) = 5 /\ threads = 2
    /\ Len(batches) = 3 /\ Len(batches[3]) = 1

\* the operator main uses returns what the loop builds
GbOperatorAgrees ==
    gb_pc = "returned" => batches = generate_batches(replicate_IDs, threads)

C3_DrawnFromOwnContig ==
    LET contigs == ContigSeq(vcf)
    IN  /\ sample_pc # "error"
        /\ Range(temp_SNPs) \subseteq KeysOf(vcf, previous_CHROM)
        /\ (previous_CHROM # <<>>) => temp_SNPs # <<>>
        /\ \A r \in Range(replicate_IDs) :
               \A i \in DOMAIN selected_snps[r] :
                  /\ i \in DOMAIN contigs
                  /\ selected_snps[r][i] \in KeysOf(vcf, contigs[i])
                  /\ \A k \in DOMAIN vcf :
                         (/\ vcf[k].CHROM = contigs[i]
                          /\ Cardinality(KeysOf(vcf, contigs[i])) = 1)
                             => selected_snps[r][i] = snp_key(vcf[k].CHROM, vcf[k].POS)

C3_Witness ==
    /\ sample_pc = "loop"
    /\ Len(ContigSeq(vcf)) = 3
    /\ Cardinality(KeysOf(vcf, ContigName(1))) = 1
    /\ Cardinality(KeysOf(vcf, ContigName(2))) = 2
    /\ Len(temp_SNPs) = 2
    /\ \A r \in Range(replicate_IDs) :
           selected_snps[r] = <<snp_key(ContigName(1), 1)>>

\* C4: in the end-to-end scenario (6 individuals, 2 populations, 3 contigs of
\* 2 loci, 4 replicates, 2 threads) sampling and encoding leave 4 encoded
\* files whose every line lists 3 allele codes, and there are 2 batches of 2.
C4_ScenarioThreeLoci ==
    (DOMAIN encoded = Range(replicate_IDs)) =>
        /\ Cardinality(DOMAIN encoded) = 4
        /\ \A r \in DOMAIN encoded :
              /\ ~encoded[r].raised
              /\ Len(encoded[r].file) = 12
              /\ \A n \in DOMAIN encoded[r].file :
                    Len(encoded[r].file[n].genotypes) = 3
        /\ Len(batches) = 2
        /\ \A b \in DOMAIN batches : Len(batches[b]) = 2

\* what the scenario does give: two codes a line (the last contig is not
\* sampled), in 4 files of 12 lines, and 2 batches of 2
ScenarioTwoLoci ==
    (DOMAIN encoded = Range(replicate_IDs)) =>
        /\ Cardinality(DOMAIN encoded) = 4
        /\ \A r \in DOMAIN encoded :
              /\ ~encoded[r].raised
              /\ Len(encoded[r].file) = 12
              /\ \A n \in DOMAIN encoded[r].file :
                    Len(encoded[r].file[n].genotypes) = 2
        /\ Len(batches) = 2
        /\ \A b \in DOMAIN batches : Len(batches[b]) = 2

\* C5: during parallelise no more than threads operations (and no more than
\* the first batch holds) run at once, and no operation of a batch begins
\* before every operation of the batches before it has finished, also when
\* the last batch is shorter than the first.  The runs are those with
\* threads >= 1, the batch sizes generate_batches is specified for.
C5_BoundedSequentialBatches ==
    /\ Cardinality(Busy) <= threads
    /\ pool_size > 0 =>
          /\ pool_size = Len(batches[1])
          /\ Cardinality(Busy) <= Len(batches[1])
    /\ \A op \in Begun :
          op.rep # -1 =>
              \A r \in Range(replicate_IDs) :
                  BatchOf(r) < BatchOf(op.rep) => Op(op.stage, op.K, r) \in ended

C5_Witness ==
    /\ Len(replicate_IDs) = 3 /\ threads = 2
    /\ Len(batches[2]) < Len(batches[1])
    /\ main_pc = "structure" /\ batch_no = 2
    /\ Cardinality(Busy) = 1
    /\ Cardinality({op \in Begun : op.stage = "structure"}) = 3

\* C6: the stages follow one another in the order sampling, encoding,
\* inference for K = 2, ..., inference for K = maxK, harvest for each K,
\* estimation for each K, and no operation of a stage begins before every
\* operation of every earlier stage has finished; the operations running
\* at one time belong to one stage and one K.
C6_StageBarriers ==
    /\ \A op \in Begun :
          \A op1 \in AllOps(maxK, replicate_IDs) :
              StageRank(op1, maxK) < StageRank(op, maxK) => op1 \in ended
    /\ \A w1, w2 \in Busy :
          /\ running[w1].stage = running[w2].stage
          /\ running[w1].K = running[w2].K

C6_Witness ==
    /\ maxK = 3 /\ Len(replicate_IDs) = 3 /\ threads = 2
    /\ main_pc = "structure" /\ K = 3
    /\ Cardinality(Busy) = 2

\* C7: an operation that raises in its worker is not run again, no
\* operation of a later batch or of a later stage is begun after it, main
\* does not leave the stage other than by failing, and the batch counter
\* does not advance.
C7_WorkerFailureAborts ==
    \A op \in raised :
        /\ invocations[op] = 1
        /\ \A op2 \in Begun : ~Precedes(op, op2, maxK)
        /\ main_pc \in {op.stage, "failed"}
        /\ K = op.K
        /\ batch_no = BatchOf(op.rep)

C7_Witness ==
    /\ main_pc = "failed"
    /\ \E op \in raised :
          /\ op.stage = "structure" /\ op.K = 2
          /\ BatchOf(op.rep) < Len(batches)
          /\ maxK = 3

\* C8: after an external inference or alignment process has exited with
\* a non-zero status no operation of a later batch, of a later K or of a
\* later stage is begun.
C8_NonZeroExitAborts ==
    first_nonzero # NoOp =>
        \A op2 \in Begun : ~Precedes(first_nonzero, op2, maxK)

\* C9: calc_clust_stats returns as MedMedK and MaxMedK the median and the
\* maximum of the series of median-threshold counts, the count of a table
\* being the number of clusters whose largest per-population median
\* membership exceeds 0.5.
C9_MedianPairFromMedianSeries ==
    stats_pc = "returned" =>
        /\ FracEq(stats_result.MedMedK, numpy_median(MedianCountSeries, 1))
        /\ FracEq(stats_result.MaxMedK,
                  numpy_max({<<MedianCountSeries[x], 1>> :
                                x \in DOMAIN MedianCountSeries}))

\* C10: in every encoded file the population indices are 1-based and given
\* in first-seen order over the individuals sorted by name: an individual of
\* a population not seen before gets the next unused index, a later one of
\* that population the same index, and the indices used are exactly 1..P.
C10_PopIndexFirstSeen ==
    \A r \in DOMAIN encoded :
        ~encoded[r].raised =>
            LET file  == encoded[r].file
                names == sorted(DOMAIN indvs_pops)
                idx(i) == file[2 * i - 1].pop
                P     == Cardinality({indvs_pops[nm] : nm \in DOMAIN indvs_pops})
            IN  /\ Len(file) = 2 * Len(names)
                /\ \A i \in DOMAIN names :
                      /\ file[2 * i].pop = idx(i)
                      /\ \A j \in 1..(i - 1) :
                            (indvs_pops[names[j]] = indvs_pops[names[i]])
                                <=> (idx(j) = idx(i))
                      /\ IF \E j \in 1..(i - 1) :
                               indvs_pops[names[j]] = indvs_pops[names[i]]
                         THEN TRUE
                         ELSE idx(i) = Cardinality({idx(j) : j \in 1..(i - 1)}) + 1
                /\ {idx(i) : i \in DOMAIN names} = 1..P

C10_Witness ==
    /\ DOMAIN indvs_pops = {IndivName(1), IndivName(2), IndivName(10)}
    /\ indvs_pops[IndivName(1)] = "south"
    /\ indvs_pops[IndivName(10)] = "north"
    /\ indvs_pops[IndivName(2)] = "south"
    /\ \E r \in DOMAIN encoded :
          /\ ~encoded[r].raised
          /\ Len(encoded[r].file) = 6
          /\ encoded[r].file[1].pop = 1
          /\ encoded[r].file[3].pop = 2
          /\ encoded[r].file[5].pop = 1
          /\ Len(encoded[r].file[1].genotypes) = 2

\* the CHROM of a locus key 'CHROM_POS' (the contig names hold no '_')
ContigOf(key) ==
    SubSeq(key, 1, (CHOOSE i \in DOMAIN key : key[i] = "_" /\
                       \A j \in 1..(i - 1) : key[j] # "_") - 1)

\* C20: at every point of select_random_snps, and so when it returns, the
\* selection lists of all replicates have one length, the i-th entries of any
\* two replicates are loci of one contig, and the locus count main reads from
\* the first replicate is the length of every replicate's list.
C20_SelectionsAligned ==
    \A r1, r2 \in Range(replicate_IDs) :
        /\ Len(selected_snps[r1]) = Len(selected_snps[r2])
        /\ Len(selected_snps[r1]) = num_loci
        /\ \A i \in DOMAIN selected_snps[r1] :
               i \in DOMAIN selected_snps[r2] =>
                  ContigOf(selected_snps[r1][i]) = ContigOf(selected_snps[r2][i])

C20_Witness ==
    /\ sample_pc = "returned"
    /\ Len(replicate_IDs) = 2
    /\ num_loci = 2
    /\ selected_snps[replicate_IDs[1]][1] # selected_snps[replicate_IDs[2]][1]
    /\ selected_snps[replicate_IDs[1]][2] # selected_snps[replicate_IDs[2]][2]

\* C11: for every encoded file and each of its lines, looking the written
\* individual index up as convert_clumpp_to_csv does gives an individual of
\* the population file, the line holds that individual's allele codes, lines
\* carry one population index exactly when the look-ups give one population
\* label, and every individual is the look-up of exactly two lines.
C11_IndexRoundTrip ==
    \A r \in DOMAIN encoded :
        ~encoded[r].raised =>
            LET file    == encoded[r].file
                records == SelectedRecords(vcf, selected_snps[r])
                sample(n) == csv_sample(indvs_pops, label_text(file[n]))
                codes(nm, n) ==
                    [k \in DOMAIN records |->
                        converted(records[k], nm).codes[IF n % 2 = 1 THEN 1 ELSE 2]]
            IN  /\ \A n \in DOMAIN file :
                      /\ sample(n) \in DOMAIN indvs_pops
                      /\ file[n].genotypes = codes(sample(n), n)
                      /\ \A m \in DOMAIN file :
                            (file[m].pop = file[n].pop)
                               <=> (csv_pop_name(indvs_pops, label_text(file[m]))
                                     = csv_pop_name(indvs_pops, label_text(file[n])))
                /\ \A nm \in DOMAIN indvs_pops :
                      Cardinality({n \in DOMAIN file : sample(n) = nm}) = 2

C11_Witness ==
    /\ DOMAIN indvs_pops = {IndivName(2), IndivName(10), IndivName(21)}
    /\ indvs_pops[IndivName(10)] = "south"
    /\ indvs_pops[IndivName(2)] = "north"
    /\ indvs_pops[IndivName(21)] = "south"
    /\ \E r \in DOMAIN encoded :
          /\ ~encoded[r].raised
          /\ csv_sample(indvs_pops, label_text(encoded[r].file[3])) = IndivName(2)
          /\ csv_sample(indvs_pops, label_text(encoded[r].file[5])) = IndivName(21)
          /\ encoded[r].file[1].genotypes # encoded[r].file[3].genotypes
          /\ encoded[r].file[3].genotypes # encoded[r].file[5].genotypes

\* C14: get_structure_genotype raises a lookup error, and returns no pair of
\* codes, for every call that has an allele other than A, T, G, C and '.',
\* whatever the length of that allele.
C14_OtherAllelesRejected ==
    (/\ structure_genotype # NotCalled
     /\ gt_bases \notin {None, <<>>}
     /\ \E i \in DOMAIN alleles_of(gt_bases) :
           alleles_of(gt_bases)[i] \notin {<<ch>> : ch \in DOMAIN GENOTYPE_CONVERSION})
        => /\ structure_genotype.raised \in {"KeyError", "IndexError"}
           /\ structure_genotype.codes = <<>>

\* What the check of characters 0 and 2 does reject: every call with an
\* allele that is a single character outside the table.
OneCharacterAllelesRejected ==
    (/\ structure_genotype # NotCalled
     /\ gt_bases \notin {None, <<>>}
     /\ \A i \in DOMAIN alleles_of(gt_bases) : Len(alleles_of(gt_bases)[i]) = 1
     /\ \E i \in DOMAIN alleles_of(gt_bases) :
           alleles_of(gt_bases)[i][1] \notin DOMAIN GENOTYPE_CONVERSION)
        => /\ structure_genotype.raised \in {"KeyError", "IndexError"}
           /\ structure_genotype.codes = <<>>

\* C15: in every encoded file, where the call of an individual at a selected
\* record is None, empty or './.', both lines of that individual hold '-9' at
\* the position of that record, and every other position of every line holds
\* the code of that individual's own call at that record.
C15_MissingIsMinusNine ==
    \A r \in DOMAIN encoded :
        ~encoded[r].raised =>
            LET file    == encoded[r].file
                records == SelectedRecords(vcf, selected_snps[r])
                names   == sorted(DOMAIN indvs_pops)
                missing(call) == call \in {None, <<>>, <<".", "/", ".">>}
            IN  \A i \in DOMAIN names, k \in DOMAIN records :
                   LET call == records[k].calls[names[i]]
                   IN  IF missing(call)
                       THEN /\ file[2 * i - 1].genotypes[k] = "-9"
                            /\ file[2 * i].genotypes[k] = "-9"
                       ELSE /\ file[2 * i - 1].genotypes[k]
                                 = GENOTYPE_CONVERSION[call[1]]
                            /\ file[2 * i].genotypes[k]
                                 = GENOTYPE_CONVERSION[call[3]]

C15_Witness ==
    \E r \in DOMAIN encoded :
        /\ ~encoded[r].raised
        /\ Len(SelectedRecords(vcf, selected_snps[r])) = 2
        /\ SelectedRecords(vcf, selected_snps[r])[1].calls[IndivName(1)] = None
        /\ SelectedRecords(vcf, selected_snps[r])[1].calls[IndivName(2)]
               = <<"A", "/", "T">>
        /\ SelectedRecords(vcf, selected_snps[r])[2].calls[IndivName(2)]
               = <<".", "/", ".">>
        /\ encoded[r].file[1].genotypes = <<"-9", "10">>
        /\ encoded[r].file[2].genotypes = <<"-9", "11">>
        /\ encoded[r].file[3].genotypes = <<"10", "-9">>
        /\ encoded[r].file[4].genotypes = <<"11", "-9">>

\* the first record of every selected locus, in stream order
RECURSIVE SelectedLoci(_, _)
SelectedLoci(stream, selection) ==
    IF stream = <<>> THEN <<>>
    ELSE LET front  == SubSeq(stream, 1, Len(stream) - 1)
             record == stream[Len(stream)]
             key    == snp_key(record.CHROM, record.POS)
         IN  IF /\ key \in Range(selection)
                /\ \A j \in DOMAIN front :
                       snp_key(front[j].CHROM, front[j].POS) # key
             THEN Append(SelectedLoci(front, selection), record)
             ELSE SelectedLoci(front, selection)

\* the file of replicate r has two consecutive lines for each individual, in
\* sorted order, numbered 1..n, and each line holds one code for each
\* selected locus and no other code, in stream order
TwoLinesOfSelectedLoci(r) ==
    LET file  == encoded[r].file
        names == sorted(DOMAIN indvs_pops)
        loci  == SelectedLoci(vcf, selected_snps[r])
    IN  /\ Len(file) = 2 * Len(names)
        /\ Len(loci) = Cardinality(Range(selected_snps[r]))
        /\ \A i \in DOMAIN names :
               /\ file[2 * i - 1].indiv_count = i
               /\ file[2 * i].indiv_count = i
               /\ file[2 * i - 1].pop = file[2 * i].pop
               /\ \A a \in 1..2 :
                     LET codes == file[2 * (i - 1) + a].genotypes
                     IN  /\ Len(codes) = Len(loci)
                         /\ \A k \in DOMAIN loci :
                               codes[k] = converted(loci[k], names[i]).codes[a]

\* no two records of the stream have one CHROM and POS
DistinctLoci(stream) ==
    \A j, k \in DOMAIN stream :
        (stream[j].CHROM = stream[k].CHROM /\ stream[j].POS = stream[k].POS)
            => j = k

\* C16: every encoded file has two consecutive lines per individual, the
\* individuals in sorted order with indices 1..n, both lines with one
\* individual index and one population index, and on each line exactly one
\* code per selected locus, in stream order, the first line holding the
\* first and the second line the second allele.
C16_OneCodePerSelectedLocus ==
    \A r \in DOMAIN encoded : ~encoded[r].raised => TwoLinesOfSelectedLoci(r)

\* What holds: the same for every stream without two records of one locus.
OneCodePerLocusOfDistinctLoci ==
    DistinctLoci(vcf) =>
        \A r \in DOMAIN encoded : ~encoded[r].raised => TwoLinesOfSelectedLoci(r)

\* an encoded file with a code for each of two records of the one locus
\* selected from c1
TwoCodesForOneLocus ==
    \E r \in DOMAIN encoded :
        /\ ~encoded[r].raised
        /\ Len(selected_snps[r]) = 2
        /\ Len(encoded[r].file[1].genotypes) = 3

C12_OutputFilesDisjoint ==
    /\ \A i, j \in DOMAIN replicate_IDs :
           i # j => /\ replicate_IDs[i] # replicate_IDs[j]
                    /\ ReplicatePath(replicate_IDs[i]) # ReplicatePath(replicate_IDs[j])
    /\ Cardinality(UNION {Written(op) : op \in WorkerOps})
          = Cardinality({op \in WorkerOps : op.stage = "encode"})
              + 2 * Cardinality({op \in WorkerOps : op.stage = "structure"})
    /\ \A w1, w2 \in Busy :
           w1 # w2 => Written(running[w1]) \cap Written(running[w2]) = {}

C12_Witness ==
    /\ vcf_filename = <<"a", ".", "s", "t", "r", ".", "v", "c", "f">>
    /\ main_pc = "structure" /\ K = 3
    /\ Cardinality(Busy) = 2
    /\ \E w \in Busy :
          Written(running[w]) =
             {<<"a", "_", "3", ".", "l", "o", "g", "_", "0", "/",
                "a", "_", "3", ".", "l", "o", "g", "_", "1",
                "_", "3", ".", "l", "o", "g">>,
              <<"a", "_", "3", ".", "o", "u", "t", "_", "0", "/",
                "a", "_", "3", ".", "o", "u", "t", "_", "1",
                "_", "3", ".", "o", "u", "t", "_", "f">>}

\* C13: when the run has completed, the inference was begun exactly once for
\* every replicate and every K of 2..maxK and the aligner exactly once for
\* every such K; at no time was either begun more than once, and the aligner
\* for a K was begun only after the aggregate input and the control file for
\* that K had been written.
C13_OncePerReplicateAndK ==
    /\ main_pc = "done" =>
          \A k \in 2..maxK :
             /\ \A r \in Range(replicate_IDs) :
                    invocations[Op("structure", k, r)] = 1
             /\ invocations[Op("aligner", k, -1)] = 1
    /\ \A op \in DOMAIN invocations :
          op.stage \in {"structure", "aligner"} => invocations[op] <= 1
    /\ \A k \in 2..maxK :
          invocations[Op("aligner", k, -1)] > 0
             => invocations[Op("harvest", k, -1)] > 0

C13_Witness ==
    /\ main_pc = "done"
    /\ maxK = 3
    /\ Len(replicate_IDs) = 3
    /\ threads = 2
    /\ \A r \in Range(replicate_IDs) : invocations[Op("structure", 3, r)] = 1
    /\ invocations[Op("aligner", 3, -1)] = 1

\* the run has ended without failure and the four indices were reported for
\* every K of 2..maxK
Completed ==
    /\ main_pc = "done"
    /\ \A k \in 2..maxK : invocations[Op("stats", k, -1)] = 1

\* main waits in pool.map of the batch and stage of every hung worker, and
\* no operation of a later batch or stage was begun
Stuck ==
    \A w \in hung :
        /\ running[w] # NoOp
        /\ pool_size > 0
        /\ main_pc = running[w].stage /\ K = running[w].K
        /\ batch_no = BatchOf(running[w].rep)
        /\ \A op \in Begun : ~Precedes(running[w], op, maxK)

\* C18: if no external process hangs (every operation finishes, none
\* failing), the run eventually completes with the four indices reported for
\* every K of 2..maxK; and once an external process of a batch hangs, main
\* stays in the join of that batch for ever and no operation of a later
\* batch or stage is ever begun.
C18_CompletesUnlessHung ==
    /\ ([](hung = {})) => <>Completed
    /\ [](hung # {} => Stuck)

C18_Witness ==
    /\ Completed
    /\ maxK = 3 /\ Len(replicate_IDs) = 3 /\ threads = 2

\* a line that begins, after its indentation, with 'Label'
StartsWithLabel(line) ==
    LET text == lstrip(line)
    IN  Len(text) >= 5 /\ SubSeq(text, 1, 5) = <<"L", "a", "b", "e", "l">>

\* a line of nothing but blanks
BlankLine(line) == \A i \in DOMAIN line : line[i] = " "

\* The block of a result file: its lines after the header line and before
\* the first blank line that follows, without the lines starting with
\* 'Label'; empty for a file without the header.
Block(file) ==
    LET headers == {i \in DOMAIN file : strip(file[i]) = STRUCTURE_ANCESTRY_HEADER}
    IN  IF headers = {} THEN <<>>
        ELSE LET h      == CHOOSE i \in headers : \A j \in headers : i <= j
                 blanks == {i \in DOMAIN file : i > h /\ BlankLine(file[i])}
                 b      == IF blanks = {} THEN Len(file) + 1
                           ELSE CHOOSE i \in blanks : \A j \in blanks : i <= j
             IN  SelectSeq(SubSeq(file, h + 1, b - 1),
                           LAMBDA line : ~StartsWithLabel(line))

\* C17: after r replicates, and so when generate_clumpp_input returns after
\* all R, the aggregate file is the blocks of the result files of replicates
\* 1..r in that order, each followed by one empty line; a block is the lines
\* after the header and before the next blank line, without the 'Label'
\* line, in their order, and is empty for a file without the header; the
\* aggregate file has no blank line but the r that end the blocks.
C17_BlocksInReplicateOrder ==
    harvest_pc # "idle" =>
        LET r == harvest_idx - 1
        IN  /\ clumpp_file = Concat([x \in 1..r |->
                                        Block(structure_files[x]) \o << <<>> >>])
            /\ Cardinality({i \in DOMAIN clumpp_file : BlankLine(clumpp_file[i])}) = r
            /\ harvest_pc = "returned" => r = Len(replicate_IDs)

C17_Witness ==
    /\ harvest_pc = "returned"
    /\ structure_files[1] =
          <<STRUCTURE_ANCESTRY_HEADER,
            <<" ", "L", "a", "b", "e", "l", " ", "P", "o", "p">>,
            <<" ", "1", " ", "0", ".", "9">>, <<" ">>>>
    /\ structure_files[2] = <<<<"2", " ", "0", ".", "1">>>>
    /\ clumpp_file = <<<<" ", "1", " ", "0", ".", "9">>, <<>>, <<>>>>

====
